---- MODULE Spec2Model ----
(***************************************************************************)
(* The handoff store of session-context (src/storage/handoffs.ts as the    *)
(* two scripts under src/mcp leave it): listHandoffs with its filename     *)
(* filter, the Bun replacements of ensureStorageDir, readHandoff, the      *)
(* write and the unlink, and the cleanup the specification describes.      *)
(*                                                                         *)
(* File names and file contents are sequences of one-character strings     *)
(* (names) and of tokens (contents), so that endsWith, startsWith, the     *)
(* regular expression and JSON.parse are computed, not assumed.            *)
(***************************************************************************)
EXTENDS Integers, Sequences, FiniteSets, TLC

VARIABLES
    dir,        \* the storage directory: file name -> content, for the files present
    op,         \* the operation that ran last
    arg,        \* its project root (list) or scope (cleanup), "" otherwise
    files,      \* list: the entries readdir returned, in its order (<<>> if it threw)
    pushed,     \* list: the handoffs array before the sort, in push order
    listed,     \* list: the array returned, each handoff with the file it came from
    opened,     \* list: the files whose content was read
    status,     \* list: "ok", "caught" (the outer catch returned []) or "error"
                \* (propagated); write: "created" or "replaced"
    path,       \* write/read: the path operated on, <<>> otherwise
    written,    \* write: the handoff given to the write of `path`; a read of the
                \* same path right after it keeps it
    got,        \* read: what readHandoff returned
    removed,    \* cleanup: the count returned
    cutoff,     \* cleanup: the policy's age threshold, 0 otherwise
    before,     \* cleanup: the count the call before it returned under the same
                \* policy, -1 if the operation before it was no such call
    wr,         \* the writers whose Bun.write is under way: position, path, text
    seen        \* read: the content of the file as the reader found it

vars == <<dir, op, arg, files, pushed, listed, opened, status, path, written, got,
          removed, cutoff, before, wr, seen>>

----------------------------------------------------------------------------
(* Bounds of the model. *)

\* the largest number of record files the storage directory holds
MaxFiles == 2

----------------------------------------------------------------------------
(* Strings. *)

EndsWith(s, suffix) ==
    /\ Len(s) >= Len(suffix)
    /\ SubSeq(s, Len(s) - Len(suffix) + 1, Len(s)) = suffix

StartsWith(s, prefix) ==
    /\ Len(s) >= Len(prefix)
    /\ SubSeq(s, 1, Len(prefix)) = prefix

\* ".json"
JsonExt == <<".", "j", "s", "o", "n">>

\* "-current.json"
CurrentSuffix == <<"-", "c", "u", "r", "r", "e", "n", "t">> \o JsonExt

\* the character class [a-f0-9]
HexLower == {"a", "b", "c", "d", "e", "f",
             "0", "1", "2", "3", "4", "5", "6", "7", "8", "9"}

\* file.match(/^[a-f0-9]{8}\./)
MatchesHashDot(file) ==
    /\ Len(file) >= 9
    /\ \A i \in 1..8 : file[i] \in HexLower
    /\ file[9] = "."

----------------------------------------------------------------------------
(* Project identifiers: sha256(projectRoot), hex, first 8 characters. *)

Projects == {"/repo/a", "/repo/b"}

\* sha256("/repo/a") = 059ba6b9..., sha256("/repo/b") = 12b61692...
getProjectHash(projectRoot) ==
    IF projectRoot = "/repo/a"
    THEN <<"0", "5", "9", "b", "a", "6", "b", "9">>
    ELSE <<"1", "2", "b", "6", "1", "6", "9", "2">>

HashA == getProjectHash("/repo/a")
HashB == getProjectHash("/repo/b")

----------------------------------------------------------------------------
(* File names of the storage directory. *)

\* {hashA}.1.json, {hashB}.1.json: new format
NewA1 == HashA \o <<".", "1">> \o JsonExt
NewB1 == HashB \o <<".", "1">> \o JsonExt
\* old.json: a legacy name
Legacy == <<"o", "l", "d">> \o JsonExt
\* deadbeef.json: a legacy name that is eight hex characters and an extension
HexLegacy == <<"d", "e", "a", "d", "b", "e", "e", "f">> \o JsonExt
\* ABCDEF12.json: the same in upper case
UpperLegacy == <<"A", "B", "C", "D", "E", "F", "1", "2">> \o JsonExt
\* {hashA}-current.json, {hashB}-current.json: the rolling checkpoints
CurrentA == HashA \o CurrentSuffix
CurrentB == HashB \o CurrentSuffix
\* .keep: the sentinel ensureStorageDir writes
KeepFile == <<".", "k", "e", "e", "p">>

----------------------------------------------------------------------------
(* Handoffs and their JSON text. *)

\* new Date(updated).getTime(), in days since the epoch (getTime() / 86400000):
\* a date-only ISO string is UTC midnight, the same instant as its long form
DateGetTime(updated) ==
    CASE updated = "2024-01-01" -> 19723
      [] updated = "2024-01-01T00:00:00.000Z" -> 19723
      [] updated = "2024-02-01" -> 19754
      [] updated = "2024-03-01" -> 19783

Handoff(hash, updated, task) ==
    [project |-> [hash |-> hash], updated |-> updated, task |-> task]

\* faulty variant: a serializer that loses the payload field
StringifyDropsTask(handoff) ==
    <<"{", "project", "{", "hash">> \o handoff.project.hash
        \o <<"}", "updated", handoff.updated, "task", "", "}">>

\* JSON.stringify(handoff, null, 2), as tokens
JSONStringify(handoff) ==
    <<"{", "project", "{", "hash">> \o handoff.project.hash
        \o <<"}", "updated", handoff.updated, "task", handoff.task, "}">>

\* the texts JSON.parse accepts here: {}, {"project":{}}, and a handoff
EmptyObjectText == <<"{", "}">>
NoHashText == <<"{", "project", "{", "}", "}">>

IsHandoffText(text) ==
    LET n == Len(text) IN
    /\ n >= 10
    /\ SubSeq(text, 1, 4) = <<"{", "project", "{", "hash">>
    /\ text[n - 5] = "}"
    /\ text[n - 4] = "updated"
    /\ text[n - 2] = "task"
    /\ text[n] = "}"

\* JSON.parse(content): ok = FALSE is the SyntaxError; an absent field is absent
\* from the value's domain
JSONParse(text) ==
    IF text = EmptyObjectText THEN [ok |-> TRUE, value |-> <<>>]
    ELSE IF text = NoHashText THEN [ok |-> TRUE, value |-> [project |-> <<>>]]
    ELSE IF IsHandoffText(text)
         THEN [ok |-> TRUE,
               value |-> Handoff(SubSeq(text, 5, Len(text) - 6),
                                 text[Len(text) - 3], text[Len(text) - 1])]
         ELSE [ok |-> FALSE, value |-> <<>>]

----------------------------------------------------------------------------
(* The file system calls and the single-record read and write. *)

NoHandoff == Handoff(<<>>, "", "")

NoFile == [exists |-> FALSE, text |-> <<>>]

\* the content a reader of the path finds
FileAt(d, pth) ==
    IF pth \in DOMAIN d THEN [exists |-> TRUE, text |-> d[pth]] ELSE NoFile

\* Bun.write(path, text), once complete: the file holds the text
BunWrite(d, pth, text) ==
    [f \in DOMAIN d \cup {pth} |-> IF f = pth THEN text ELSE d[f]]

\* faulty variant: the file stays
UnlinkLeavesFile(d, pth) == d

\* unlinkSync(path)
unlinkSync(d, pth) == [f \in DOMAIN d \ {pth} |-> d[f]]

\* const file = Bun.file(path);
\* if (!(await file.exists())) return null;
\* return (await file.json()) as Handoff;
readHandoff(d, pth) ==
    IF pth \notin DOMAIN d THEN [kind |-> "null", value |-> NoHandoff]
    ELSE LET parsed == JSONParse(d[pth]) IN
         IF parsed.ok /\ DOMAIN parsed.value = DOMAIN NoHandoff
         THEN [kind |-> "handoff", value |-> parsed.value]
         ELSE IF parsed.ok THEN [kind |-> "other", value |-> NoHandoff]
         ELSE [kind |-> "throw", value |-> NoHandoff]

----------------------------------------------------------------------------
(* listHandoffs. *)

\* faulty variant: the rolling checkpoints are not skipped
SkipsNoCheckpoint(file) == FALSE

\* if (file.endsWith("-current.json")) continue;
IsRollingCheckpoint(file) == EndsWith(file, CurrentSuffix)

\* faulty variant: no filename filter, every other .json file is opened
SkipsNothing(file, hash) == FALSE

\* faulty variant: every file that is not new format of this project is skipped
SkipsLegacyToo(file, hash) == ~StartsWith(file, hash \o <<".">>)

\* const isNewFormat = file.startsWith(`${hash}.`);
\* if (!isNewFormat && file.match(/^[a-f0-9]{8}\./)) continue;
IsForeignNewFormat(file, hash) ==
    LET isNewFormat == StartsWith(file, hash \o <<".">>)
    IN  ~isNewFormat /\ MatchesHashDot(file)

\* faulty variant: any record that names a project is taken
AnyProjectHash(value, hash) == "hash" \in DOMAIN value.project

\* handoff.project.hash === hash (an absent hash is undefined, never equal)
HashMatches(value, hash) ==
    /\ "hash" \in DOMAIN value.project
    /\ value.project.hash = hash

\* the body of the inner try: "throw" is what the inner catch receives
TryFile(d, file, hash) ==
    IF file \notin DOMAIN d THEN [kind |-> "throw", value |-> <<>>]
    ELSE LET parsed == JSONParse(d[file]) IN
         IF ~parsed.ok THEN [kind |-> "throw", value |-> <<>>]
         ELSE IF "project" \notin DOMAIN parsed.value
              THEN [kind |-> "throw", value |-> <<>>]
         ELSE IF HashMatches(parsed.value, hash)
              THEN [kind |-> "push", value |-> parsed.value]
              ELSE [kind |-> "skip", value |-> <<>>]

\* faulty variant: an invalid file ends the listing
InnerCatchRethrows(acc) == [acc EXCEPT !.threw = TRUE]

\* catch { /* Skip invalid files */ }
InnerCatch(acc) == acc

RECURSIVE ListLoop(_, _, _, _, _)
\* for (const file of files) { ... }
ListLoop(d, entries, hash, i, acc) ==
    IF i > Len(entries) \/ acc.threw THEN acc
    ELSE LET file == entries[i] IN
         IF ~EndsWith(file, JsonExt) THEN ListLoop(d, entries, hash, i + 1, acc)
         ELSE IF IsRollingCheckpoint(file) THEN ListLoop(d, entries, hash, i + 1, acc)
         ELSE IF IsForeignNewFormat(file, hash)
              THEN ListLoop(d, entries, hash, i + 1, acc)
         ELSE LET r == TryFile(d, file, hash)
                  read == [acc EXCEPT !.opened = @ \cup {file}]
              IN  ListLoop(d, entries, hash, i + 1,
                    CASE r.kind = "push" ->
                           [read EXCEPT !.handoffs =
                                Append(@, [file |-> file, handoff |-> r.value])]
                      [] r.kind = "skip" -> read
                      [] r.kind = "throw" -> InnerCatch(read))

\* faulty variant: oldest first
CompareAscending(a, b) == DateGetTime(a.updated) - DateGetTime(b.updated)

\* (a, b) => new Date(b.updated).getTime() - new Date(a.updated).getTime()
CompareUpdated(a, b) == DateGetTime(b.updated) - DateGetTime(a.updated)

\* x goes before the first element that must follow it
InsertStable(sorted, x) ==
    LET after == {i \in 1..Len(sorted) :
                     CompareUpdated(sorted[i].handoff, x.handoff) > 0}
        k == IF after = {} THEN Len(sorted) + 1
             ELSE CHOOSE i \in after : \A j \in after : i <= j
    IN  SubSeq(sorted, 1, k - 1) \o <<x>> \o SubSeq(sorted, k, Len(sorted))

RECURSIVE SortFrom(_, _, _)
SortFrom(handoffs, i, sorted) ==
    IF i > Len(handoffs) THEN sorted
    ELSE SortFrom(handoffs, i + 1, InsertStable(sorted, handoffs[i]))

\* handoffs.sort(compare): Array.prototype.sort is stable
SortHandoffs(handoffs) == SortFrom(handoffs, 1, <<>>)

\* await Bun.write(join(STORAGE_DIR, ".keep"), "")
ensureStorageDir(d) ==
    [f \in DOMAIN d \cup {KeepFile} |-> IF f = KeepFile THEN <<>> ELSE d[f]]

\* faulty variant: the failure reaches the caller
OuterCatchRethrows(d) ==
    [dir |-> d, pushed |-> <<>>, listed |-> <<>>, opened |-> {}, status |-> "error"]

\* catch { return []; }
OuterCatch(d) ==
    [dir |-> d, pushed |-> <<>>, listed |-> <<>>, opened |-> {}, status |-> "caught"]

\* listHandoffs(projectRoot): env says which of ensureStorageDir and readdir
\* fails, entries is what readdir returns, in its order
listHandoffs(d, projectRoot, entries, env) ==
    IF env = "ensure" THEN OuterCatch(d)
    ELSE IF env = "readdir" THEN OuterCatch(ensureStorageDir(d))
    ELSE LET hash == getProjectHash(projectRoot)
             acc == ListLoop(ensureStorageDir(d), entries, hash, 1,
                             [handoffs |-> <<>>, opened |-> {}, threw |-> FALSE])
         IN  IF acc.threw THEN OuterCatch(ensureStorageDir(d))
             ELSE [dir |-> ensureStorageDir(d), pushed |-> acc.handoffs,
                   listed |-> SortHandoffs(acc.handoffs),
                   opened |-> acc.opened, status |-> "ok"]

RECURSIVE SetToSeq(_)
SetToSeq(S) ==
    IF S = {} THEN <<>>
    ELSE LET f == CHOOSE x \in S : TRUE IN <<f>> \o SetToSeq(S \ {f})

RECURSIVE Orders(_)
Orders(n) ==
    IF n = 0 THEN {<<>>}
    ELSE UNION {{SubSeq(o, 1, k - 1) \o <<n>> \o SubSeq(o, k, n - 1) : k \in 1..n} :
                  o \in Orders(n - 1)}

\* the orders in which readdir may return a set of entries
Enumerations(S) ==
    LET entries == SetToSeq(S)
    IN  {[i \in 1..Len(entries) |-> entries[o[i]]] : o \in Orders(Len(entries))}

Writers == {"w1", "w2"}

Idle == [pc |-> "idle", path |-> <<>>, text |-> <<>>, old |-> NoFile]

NoWriter == [w \in Writers |-> Idle]

ListReturn(projectRoot, entries, r) ==
    /\ dir' = r.dir
    /\ op' = "list"
    /\ arg' = projectRoot
    /\ files' = entries
    /\ pushed' = r.pushed
    /\ listed' = r.listed
    /\ opened' = r.opened
    /\ status' = r.status
    /\ path' = <<>>
    /\ written' = NoHandoff
    /\ got' = [kind |-> "null", value |-> NoHandoff]
    /\ removed' = 0
    /\ cutoff' = 0
    /\ before' = -1
    /\ seen' = NoFile
    /\ UNCHANGED wr

\* a call of listHandoffs that gets through ensureStorageDir and readdir
List ==
    \E entries \in Enumerations(DOMAIN ensureStorageDir(dir)) :
      \E projectRoot \in Projects :
        ListReturn(projectRoot, entries, listHandoffs(dir, projectRoot, entries, "ok"))

\* a call of listHandoffs in which ensureStorageDir or readdir throws
ListFails ==
    \E projectRoot \in Projects, env \in {"ensure", "readdir"} :
      ListReturn(projectRoot, <<>>, listHandoffs(dir, projectRoot, <<>>, env))

----------------------------------------------------------------------------
(* Listing an arbitrary storage directory: any mix of legacy, new-format    *)
(* and checkpoint files of two projects, valid or corrupt.                  *)

RecordNames == {NewA1, NewB1, Legacy, HexLegacy, UpperLegacy, CurrentA}

HandoffA1 == Handoff(HashA, "2024-01-01", "t")
HandoffA1z == Handoff(HashA, "2024-01-01T00:00:00.000Z", "t")
HandoffA3 == Handoff(HashA, "2024-03-01", "t")
HandoffB2 == Handoff(HashB, "2024-02-01", "t")

\* a handoff text cut short: not JSON
TruncatedText == SubSeq(JSONStringify(HandoffA1), 1, 13)

ValidTexts == {JSONStringify(h) : h \in {HandoffA1, HandoffA1z, HandoffA3, HandoffB2}}
CorruptTexts == {TruncatedText, EmptyObjectText, NoHashText}

Quiet ==
    /\ op = "none" /\ arg = "" /\ files = <<>> /\ pushed = <<>> /\ listed = <<>> /\ opened = {}
    /\ status = "ok" /\ path = <<>> /\ written = NoHandoff
    /\ got = [kind |-> "null", value |-> NoHandoff]
    /\ removed = 0 /\ cutoff = 0 /\ before = -1 /\ wr = NoWriter /\ seen = NoFile

InitList ==
    /\ \E S \in SUBSET RecordNames :
         /\ Cardinality(S) <= MaxFiles
         /\ dir \in [S -> ValidTexts \cup CorruptTexts]
    /\ Quiet

NextList == op = "none" /\ (List \/ ListFails)

SpecList == InitList /\ [][NextList]_vars

----------------------------------------------------------------------------
(* The store's operations on a directory that starts empty: writes under    *)
(* new-format, legacy and rolling-checkpoint names, reads, cleanup, list.   *)

StoredHandoffs == {HandoffA1, HandoffA3, HandoffB2}

\* {projectHash}.{id}.json
NewFormatName(hash, id) == hash \o <<".", id>> \o JsonExt

\* {projectHash}-current.json
CheckpointName(hash) == hash \o CurrentSuffix

StoreNames == {NewA1, NewB1, Legacy, CurrentA, CurrentB}

RecordFiles(d) == DOMAIN d \ {KeepFile}

\* the directory has room for the file
Fits(d, pth) == pth \in DOMAIN d \/ Cardinality(RecordFiles(d)) < MaxFiles

\* ensureStorageDir(), then Bun.write(path, JSON.stringify(handoff, null, 2))
WriteTo(pth, handoff) ==
    /\ Fits(dir, pth)
    /\ dir' = BunWrite(ensureStorageDir(dir), pth, JSONStringify(handoff))
    /\ op' = "write"
    /\ status' = IF pth \in DOMAIN dir THEN "replaced" ELSE "created"
    /\ path' = pth
    /\ written' = handoff
    /\ arg' = ""
    /\ files' = <<>>
    /\ pushed' = <<>>
    /\ listed' = <<>>
    /\ opened' = {}
    /\ got' = [kind |-> "null", value |-> NoHandoff]
    /\ removed' = 0
    /\ cutoff' = 0
    /\ before' = -1
    /\ seen' = NoFile
    /\ UNCHANGED wr

\* write(handoff) under the new-format name of its project
WriteHandoff ==
    \E handoff \in StoredHandoffs :
        WriteTo(NewFormatName(handoff.project.hash, "1"), handoff)

\* write(handoff) as the rolling checkpoint of its project
WriteCheckpoint ==
    \E handoff \in StoredHandoffs :
        WriteTo(CheckpointName(handoff.project.hash), handoff)

\* writeRecord(path, handoff) under a legacy name
WriteLegacy == \E handoff \in StoredHandoffs : WriteTo(Legacy, handoff)

\* read(path)
ReadAt(pth) ==
        /\ got' = readHandoff(dir, pth)
        /\ seen' = FileAt(dir, pth)
        /\ op' = "read"
        /\ path' = pth
        /\ written' = IF op = "write" /\ path = pth THEN written ELSE NoHandoff
        /\ status' = IF op = "write" /\ path = pth THEN status ELSE "ok"
        /\ arg' = ""
        /\ files' = <<>>
        /\ pushed' = <<>>
        /\ listed' = <<>>
        /\ opened' = {}
        /\ removed' = 0
        /\ cutoff' = 0
        /\ before' = -1
        /\ UNCHANGED <<dir, wr>>

Read == \E pth \in StoreNames : ReadAt(pth)

\* the files a cleanup of the scope ("all" or a project root) inspects and
\* finds older than the threshold: the discovery rules of list, then the age
Expired(d, scope, threshold) ==
    {f \in DOMAIN d :
        /\ EndsWith(f, JsonExt)
        /\ ~IsRollingCheckpoint(f)
        /\ scope = "all" \/ ~IsForeignNewFormat(f, getProjectHash(scope))
        /\ LET parsed == JSONParse(d[f]) IN
           /\ parsed.ok
           /\ "project" \in DOMAIN parsed.value
           /\ scope = "all" \/ HashMatches(parsed.value, getProjectHash(scope))
           /\ "updated" \in DOMAIN parsed.value
           /\ DateGetTime(parsed.value.updated) < threshold}

RECURSIVE UnlinkAll(_, _)
UnlinkAll(d, S) ==
    IF S = {} THEN d
    ELSE LET f == CHOOSE x \in S : TRUE IN UnlinkAll(unlinkSync(d, f), S \ {f})

\* cleanup(policy) -> count removed
cleanup(d, scope, threshold) ==
    LET ensured == ensureStorageDir(d)
        expired == Expired(ensured, scope, threshold)
    IN  [dir |-> UnlinkAll(ensured, expired), removed |-> Cardinality(expired)]

\* the age thresholds of the policies: 2024-02-01 and 2024-04-01, in days
Thresholds == {19754, 19814}

Cleanup ==
    \E scope \in Projects \cup {"all"}, threshold \in Thresholds :
        LET r == cleanup(dir, scope, threshold) IN
        /\ dir' = r.dir
        /\ removed' = r.removed
        /\ op' = "cleanup"
        /\ arg' = scope
        /\ cutoff' = threshold
        /\ before' = IF op = "cleanup" /\ arg = scope /\ cutoff = threshold
                     THEN removed ELSE -1
        /\ status' = "ok"
        /\ path' = <<>>
        /\ written' = NoHandoff
        /\ got' = [kind |-> "null", value |-> NoHandoff]
        /\ files' = <<>>
        /\ pushed' = <<>>
        /\ listed' = <<>>
        /\ opened' = {}
        /\ seen' = NoFile
        /\ UNCHANGED wr

Init == dir = <<>> /\ Quiet

Next ==
    \/ WriteHandoff
    \/ WriteCheckpoint
    \/ WriteLegacy
    \/ Read
    \/ Cleanup
    \/ List
    \/ ListFails

Spec == Init /\ [][Next]_vars

----------------------------------------------------------------------------
(* Writers and readers at once. Bun.write(path, text) is not one step of    *)
(* the file system: it opens the file, which creates or truncates it, and   *)
(* then writes the text. Nothing in the store renames a temporary file or   *)
(* takes a lock, so a reader may run between the two.                       *)

ConcNames == {NewA1, Legacy}
ConcHandoffs == {HandoffA1, HandoffA3}

\* open(path, O_WRONLY | O_CREAT | O_TRUNC)
OpenTruncate(d, pth) == BunWrite(d, pth, <<>>)

BeginWrite ==
    \E w \in Writers, pth \in ConcNames, handoff \in ConcHandoffs :
        /\ wr[w].pc # "open"
        /\ wr' = [wr EXCEPT ![w] = [pc |-> "open", path |-> pth,
                                    text |-> JSONStringify(handoff),
                                    old |-> FileAt(dir, pth)]]
        /\ dir' = OpenTruncate(ensureStorageDir(dir), pth)
        /\ op' = "write"
        /\ status' = "ok"
        /\ path' = <<>>
        /\ written' = NoHandoff
        /\ arg' = ""
        /\ files' = <<>>
        /\ pushed' = <<>>
        /\ listed' = <<>>
        /\ opened' = {}
        /\ got' = [kind |-> "null", value |-> NoHandoff]
        /\ removed' = 0
        /\ cutoff' = 0
        /\ before' = -1
        /\ seen' = NoFile

\* write(fd, text); close(fd)
FinishWrite ==
    \E w \in Writers :
        /\ wr[w].pc = "open"
        /\ wr' = [wr EXCEPT ![w].pc = "done", ![w].old = NoFile]
        /\ dir' = BunWrite(dir, wr[w].path, wr[w].text)
        /\ op' = "write"
        /\ UNCHANGED <<status, path, written, arg, files, pushed, listed, opened,
                       got, removed, cutoff, before, seen>>

ConcRead == \E pth \in ConcNames : ReadAt(pth)

NextConc ==
    \/ BeginWrite
    \/ FinishWrite
    \/ ConcRead
    \/ List

SpecConc == Init /\ [][NextConc]_vars

----------------------------------------------------------------------------
(* Properties of a listing. *)

ListedFiles == {listed[i].file : i \in DOMAIN listed}

\* the position of an entry in what readdir returned
Position(file) == CHOOSE i \in DOMAIN files : files[i] = file

\* the text is a record of the project with this identifier
IsRecordOf(text, hash) ==
    LET parsed == JSONParse(text) IN
    /\ parsed.ok
    /\ "project" \in DOMAIN parsed.value
    /\ "hash" \in DOMAIN parsed.value.project
    /\ parsed.value.project.hash = hash

\* invalid content, or content lacking project.hash
IsCorrupt(text) == \A projectRoot \in Projects : ~IsRecordOf(text, getProjectHash(projectRoot))

HexAnyCase == HexLower \cup {"A", "B", "C", "D", "E", "F"}

\* the name starts with eight characters of the class and a dot, and the eight
\* characters are not the identifier
EncodesOtherHash(file, class, hash) ==
    /\ Len(file) >= 9
    /\ \A i \in 1..8 : file[i] \in class
    /\ file[9] = "."
    /\ SubSeq(file, 1, 8) # hash

Listed == op = "list" /\ status = "ok"

\* contents to put in a file the listing must not read: a record of the
\* project itself, which would be listed if read, and two corrupt texts
ProbeTexts(hash) ==
    {JSONStringify(Handoff(hash, "2024-03-01", "t")), TruncatedText, EmptyObjectText}

\* C1: every record list(p) returns has project.hash = identifierFor(p)
C1_OnlyOwnProject ==
    op = "list" =>
        \A i \in DOMAIN listed :
            listed[i].handoff.project.hash = getProjectHash(arg)

\* a record of the other project, under a legacy name, was opened and left out
C1_Witness ==
    /\ Listed
    /\ listed # <<>>
    /\ \E f \in opened :
         \E other \in Projects \ {arg} : IsRecordOf(dir[f], getProjectHash(other))

\* C2 as stated: list(p) holds every parseable record of p that is in a .json
\* file other than a rolling checkpoint, whatever the file is called, and no
\* record of another project
C2_EveryRecordWhateverTheName ==
    Listed =>
        /\ \A f \in DOMAIN dir :
              ( /\ EndsWith(f, JsonExt)
                /\ ~EndsWith(f, CurrentSuffix)
                /\ IsRecordOf(dir[f], getProjectHash(arg)) ) => f \in ListedFiles
        /\ \A i \in DOMAIN listed :
              listed[i].handoff.project.hash = getProjectHash(arg)

\* C2 amended: list(p) holds exactly the parseable records of p that are in
\* .json files which are no rolling checkpoint and whose name does not start
\* with eight lower-case hex characters and a dot other than p's identifier;
\* each once, with the content of its file
C2_ExactlyOwnRecords ==
    Listed =>
        /\ ListedFiles =
              {f \in DOMAIN dir :
                  /\ EndsWith(f, JsonExt)
                  /\ ~EndsWith(f, CurrentSuffix)
                  /\ ~EncodesOtherHash(f, HexLower, getProjectHash(arg))
                  /\ IsRecordOf(dir[f], getProjectHash(arg))}
        /\ Cardinality(ListedFiles) = Len(listed)
        /\ \A i \in DOMAIN listed :
              /\ JSONParse(dir[listed[i].file]).value = listed[i].handoff
              /\ listed[i].handoff.project.hash = getProjectHash(arg)

\* a legacy-named and a new-format record of the project are both listed
C2_Witness ==
    /\ Listed
    /\ \E f, g \in ListedFiles :
          /\ StartsWith(f, getProjectHash(arg) \o <<".">>)
          /\ ~StartsWith(g, getProjectHash(arg) \o <<".">>)

\* C4 as stated: a file whose name starts with eight hex characters (of either
\* case) and a dot, the eight not being p's identifier, is not opened, is not
\* in the result, and the result is the same whatever the file holds
C4_AnyHexPrefixNeverOpened ==
    Listed =>
        \A f \in DOMAIN dir :
            EncodesOtherHash(f, HexAnyCase, getProjectHash(arg)) =>
                /\ f \notin opened
                /\ f \notin ListedFiles
                /\ \A text \in ProbeTexts(getProjectHash(arg)) :
                      listHandoffs([dir EXCEPT ![f] = text], arg, files, "ok").listed
                          = listed

\* C4 amended: the same of a file whose name starts with eight lower-case hex
\* characters and a dot
C4_ForeignNeverOpened ==
    Listed =>
        \A f \in DOMAIN dir :
            EncodesOtherHash(f, HexLower, getProjectHash(arg)) =>
                /\ f \notin opened
                /\ f \notin ListedFiles
                /\ \A text \in ProbeTexts(getProjectHash(arg)) :
                      listHandoffs([dir EXCEPT ![f] = text], arg, files, "ok").listed
                          = listed

\* a corrupt file with another project's identifier in its name, beside a
\* listed record
C4_Witness ==
    /\ Listed
    /\ listed # <<>>
    /\ \E f \in DOMAIN dir :
          /\ EncodesOtherHash(f, HexLower, getProjectHash(arg))
          /\ IsCorrupt(dir[f])

C5_TieWitness ==
    /\ Listed
    /\ \E i, j \in DOMAIN listed :
          /\ i < j
          /\ listed[i].handoff.updated # listed[j].handoff.updated
          /\ DateGetTime(listed[i].handoff.updated)
                = DateGetTime(listed[j].handoff.updated)

NotCorrupt(f) == f \in DOMAIN dir /\ ~IsCorrupt(dir[f])

\* C6: when ensureStorageDir and readdir succeed, list(p) does not fail, and
\* returns what it returns of the same directory without its corrupt files
C6_CorruptSkipped ==
    (op = "list" /\ files # <<>>) =>
        /\ status = "ok"
        /\ listed =
             listHandoffs([f \in {g \in DOMAIN dir : NotCorrupt(g)} |-> dir[f]],
                          arg, SelectSeq(files, NotCorrupt), "ok").listed

\* a corrupt file was read before a record that is listed, and one after
C6_Witness ==
    /\ Listed
    /\ \E f \in opened, g \in ListedFiles :
          /\ IsCorrupt(dir[f])
          /\ Position(f) < Position(g)

\* C7: a listing in which ensureStorageDir or readdir throws returns the empty
\* sequence, raises nothing, and leaves every file as it was
C7_TopLevelFailure ==
    [][ListFails =>
          /\ status' = "caught"
          /\ listed' = <<>>
          /\ \A f \in DOMAIN dir : f \in DOMAIN dir' /\ dir'[f] = dir[f]]_vars

\* a listing failed over a directory that holds a record of the project
C7_Witness ==
    /\ op = "list"
    /\ files = <<>>
    /\ status = "caught"
    /\ listed = <<>>
    /\ \E f \in DOMAIN dir : IsRecordOf(dir[f], getProjectHash(arg)) /\ f = Legacy

----------------------------------------------------------------------------
(* Properties of the store's operations. *)

\* C3: list(p) never returns the content of a file whose name ends in
\* -current.json, the rolling checkpoint of p included
C3_NoCheckpointListed ==
    op = "list" =>
        \A i \in DOMAIN listed : ~EndsWith(listed[i].file, CurrentSuffix)

\* p has a rolling checkpoint, written by the store, beside a listed record
C3_Witness ==
    /\ Listed
    /\ listed # <<>>
    /\ CheckpointName(getProjectHash(arg)) \in DOMAIN dir
    /\ IsRecordOf(dir[CheckpointName(getProjectHash(arg))], getProjectHash(arg))

\* C8: a read of a path right after a write of a handoff to it returns the
\* handoff, field for field, whether the write created or replaced the file
C8_RoundTrip ==
    (op = "read" /\ written # NoHandoff) =>
        /\ got.kind = "handoff"
        /\ got.value = written
        /\ \A field \in DOMAIN written : got.value[field] = written[field]

\* a legacy-named file was replaced and read back
C8_Witness ==
    /\ op = "read"
    /\ written # NoHandoff
    /\ status = "replaced"
    /\ path = Legacy
    /\ got.value = written

C10_WritesAtomic ==
    /\ \A w \in Writers :
          (wr[w].pc = "open" /\ op = "read" /\ path = wr[w].path
              /\ \A v \in Writers \ {w} : wr[v].path # wr[w].path)
          => seen \in {wr[w].old, [exists |-> TRUE, text |-> wr[w].text]}
    /\ \A w \in Writers :
          (wr[w].pc = "open" /\ Listed
              /\ wr[w].old.exists
              /\ IsRecordOf(wr[w].old.text, getProjectHash(arg))
              /\ IsRecordOf(wr[w].text, getProjectHash(arg))
              /\ \A v \in Writers \ {w} : wr[v].path # wr[w].path)
          => wr[w].path \in ListedFiles
    /\ \A w \in Writers :
          (wr[w].pc = "done" /\ \A v \in Writers \ {w} : wr[v].path # wr[w].path)
          => dir[wr[w].path] = wr[w].text

====
